---- MODULE Spec2Model ----
(***************************************************************************)
(* Model of nursery_ai.py: the batch driver generate_images_from_csv, the  *)
(* canvas/mask construction create_extended_canvas_and_mask and the        *)
(* inpaint requester extend_with_flux_fill.                                 *)
(*                                                                         *)
(* Strings are sequences of one-character strings, so that str.strip() is  *)
(* computed.  An image is a record [w, h, bg, layers]: a w x h raster      *)
(* filled with bg on which the rectangles of layers were pasted in order;  *)
(* GetPixel computes a pixel the way Image.paste leaves it (the pasted     *)
(* rectangle clipped to the raster).                                       *)
(*                                                                         *)
(* The two remote services are opaque: each call nondeterministically      *)
(* returns or raises.  A save that raises leaves no file.                  *)
(***************************************************************************)
EXTENDS Integers, Sequences, FiniteSets, TLC

VARIABLES
    rows,             \* the rows csv.reader yields, in order
    max_lines,        \* None (<<>>) or <<n>>
    aspect_ratio,     \* the aspect_ratio argument, a string
    pc,               \* position in the code
    line_number,      \* enumerate(csv_reader, start=1)
    processed_count,  \* images saved so far
    prompt,           \* row[0].strip() of the current record
    base_image,       \* decoded base image, or NoImage
    extended_canvas,  \* canvas of the current record, or NoImage
    mask,             \* mask of the current record, or NoImage
    outDirExists,     \* output_dir is a directory
    debugDirExists,   \* output_dir/debug is a directory
    finalFiles,       \* line numbers n with output_dir/n.png
    canvasFiles,      \* line numbers n with debug/n_canvas.png
    maskFiles,        \* line numbers n with debug/n_mask.png
    genCalls,         \* requests sent to openai_client.images.generate
    fillCalls,        \* requests sent to replicate_client.run
    out               \* what was printed, in order

vars == <<rows, max_lines, aspect_ratio, pc, line_number, processed_count,
          prompt, base_image, extended_canvas, mask, outDirExists,
          debugDirExists, finalFiles, canvasFiles, maskFiles, genCalls,
          fillCalls, out>>

----------------------------------------------------------------------------
(* Bounds of the model *)

MaxRows == 3
MaxLimit == 2
MaxDim == 2
Slack == 2

(* Program constants *)

TargetLen == 1824
LandscapeW == 1536
LandscapeH == 1024

----------------------------------------------------------------------------
(* Values *)

None == <<>>
NoImage == [w |-> 0, h |-> 0, bg |-> "none", layers |-> <<>>]

Whitespace == {" ", "\t"}

ACat == <<"a", " ", "c", "a", "t">>
ADog == <<"a", " ", "d", "o", "g">>

\* the rows a CSV file of the model may hold
RowValues == { <<>>, << <<>> >>, << <<" ", "\t">>, ACat >>, <<ACat>>, <<ADog>> }

Ratios == {"16:9", "9:16", "4:3"}

----------------------------------------------------------------------------
(* str.strip() *)

RECURSIVE LStrip(_)
LStrip(s) ==
    IF s # <<>> /\ Head(s) \in Whitespace THEN LStrip(Tail(s)) ELSE s

RECURSIVE RStrip(_)
RStrip(s) ==
    IF s # <<>> /\ s[Len(s)] \in Whitespace
    THEN RStrip(SubSeq(s, 1, Len(s) - 1))
    ELSE s

Strip(s) == RStrip(LStrip(s))

\* the emptiness test without strip()
IsEmptyRowNoStrip(row) == IF row = <<>> THEN TRUE ELSE row[1] = <<>>

\* not row or not row[0].strip()
IsEmptyRow(row) == IF row = <<>> THEN TRUE ELSE Strip(row[1]) = <<>>

----------------------------------------------------------------------------
(* Raster images *)

\* Image.new(mode, (w, h), color); also a decoded or resized image of one content
ImageNew(w, h, color) == [w |-> w, h |-> h, bg |-> color, layers |-> <<>>]

\* im.paste(src, position): src's rectangle is copied at position
Paste(im, src, position) ==
    [im EXCEPT !.layers = Append(@, [x |-> position[1], y |-> position[2],
                                     w |-> src.w, h |-> src.h, val |-> src.bg])]

InLayer(l, x, y) == l.x <= x /\ x < l.x + l.w /\ l.y <= y /\ y < l.y + l.h

\* the value of pixel (x, y), 0 <= x < im.w, 0 <= y < im.h: the last paste covering it
RECURSIVE PixelFrom(_, _, _, _)
PixelFrom(im, k, x, y) ==
    IF k = 0 THEN im.bg
    ELSE IF InLayer(im.layers[k], x, y) THEN im.layers[k].val
    ELSE PixelFrom(im, k - 1, x, y)

GetPixel(im, x, y) == PixelFrom(im, Len(im.layers), x, y)

Size(im) == <<im.w, im.h>>

----------------------------------------------------------------------------
(* create_extended_canvas_and_mask *)

\* the extension without its halving
ExtensionWhole(target, original) == target - original

\* extension = (target - original) // 2
Extension(target, original) == (target - original) \div 2

\* every ratio other than 16:9 taken for 9:16
IsSupportedElse(ratio) == TRUE

IsSupported(ratio) == ratio \in {"16:9", "9:16"}

TargetSize(image, ratio) ==
    IF ratio = "16:9" THEN <<TargetLen, image.h>> ELSE <<image.w, TargetLen>>

PastePosition(image, ratio) ==
    IF ratio = "16:9"
    THEN <<Extension(TargetLen, image.w), 0>>
    ELSE <<0, Extension(TargetLen, image.h)>>

\* blurred.resize(target_size), then paste(image, paste_position)
ExtendedCanvas(image, ratio) ==
    LET target_size == TargetSize(image, ratio)
        blurred == ImageNew(image.w, image.h, "blurred")
        resized == ImageNew(target_size[1], target_size[2], blurred.bg)
    IN  Paste(resized, image, PastePosition(image, ratio))

BlackBox(image) == ImageNew(image.w, image.h, "black")

\* the mask with its black box placed by a rounded-up extension
MaskImageDrift(image, ratio) ==
    LET target_size == TargetSize(image, ratio)
        white == ImageNew(target_size[1], target_size[2], "white")
        drift == IF ratio = "16:9"
                 THEN <<(TargetLen - image.w + 1) \div 2, 0>>
                 ELSE <<0, (TargetLen - image.h + 1) \div 2>>
    IN  Paste(white, BlackBox(image), drift)

\* Image.new('L', target_size, 'white'), then paste(black_box, paste_position)
MaskImage(image, ratio) ==
    LET target_size == TargetSize(image, ratio)
        white == ImageNew(target_size[1], target_size[2], "white")
    IN  Paste(white, BlackBox(image), PastePosition(image, ratio))

CreateExtendedCanvasAndMask(image, ratio) ==
    IF IsSupported(ratio)
    THEN [raised |-> FALSE, extended_canvas |-> ExtendedCanvas(image, ratio),
          mask |-> MaskImage(image, ratio)]
    ELSE [raised |-> TRUE, extended_canvas |-> NoImage, mask |-> NoImage]

----------------------------------------------------------------------------
(* generate_images_from_csv *)

\* "1536x1024" for 16:9 and "1024x1536" for 9:16
ImageSize(ratio) ==
    IF ratio = "16:9" THEN <<LandscapeW, LandscapeH>> ELSE <<LandscapeH, LandscapeW>>

\* the limit test with > in place of >=
LimitReachedLate == IF max_lines = None THEN FALSE ELSE processed_count > max_lines[1]

LimitReached == IF max_lines = None THEN FALSE ELSE processed_count >= max_lines[1]

Inputs == UNION {[1..n -> RowValues] : n \in 0..MaxRows}
Limits == {None} \cup {<<n>> : n \in 0..MaxLimit}

Init ==
    /\ rows \in Inputs
    /\ max_lines \in Limits
    /\ aspect_ratio \in Ratios
    /\ pc = "start"
    /\ line_number = 1
    /\ processed_count = 0
    /\ prompt = <<>>
    /\ base_image = NoImage
    /\ extended_canvas = NoImage
    /\ mask = NoImage
    /\ outDirExists \in BOOLEAN
    /\ debugDirExists \in {FALSE, outDirExists}
    /\ finalFiles = {}
    /\ canvasFiles = {}
    /\ maskFiles = {}
    /\ genCalls = <<>>
    /\ fillCalls = <<>>
    /\ out = <<>>

inputVars == <<rows, max_lines, aspect_ratio>>
imageVars == <<base_image, extended_canvas, mask>>
fileVars == <<outDirExists, debugDirExists, finalFiles, canvasFiles, maskFiles>>
callVars == <<genCalls, fillCalls>>

\* the driver without its mkdir of the output directory
MakeOutputDirMissing ==
    /\ pc = "start"
    /\ pc' = "loop"
    /\ UNCHANGED <<inputVars, imageVars, callVars, line_number, processed_count,
                   prompt, fileVars, out>>

\* Path(output_dir).mkdir(parents=True, exist_ok=True); processed_count = 0
MakeOutputDir ==
    /\ pc = "start"
    /\ outDirExists' = TRUE
    /\ pc' = "loop"
    /\ UNCHANGED <<inputVars, imageVars, callVars, line_number, processed_count,
                   prompt, debugDirExists, finalFiles, canvasFiles, maskFiles, out>>

\* the for loop is exhausted
EndOfInput ==
    /\ pc = "loop"
    /\ line_number > Len(rows)
    /\ pc' = "done"
    /\ UNCHANGED <<inputVars, imageVars, fileVars, callVars, line_number,
                   processed_count, prompt, out>>

\* if max_lines is not None and processed_count >= max_lines: break
LimitStop ==
    /\ pc = "loop"
    /\ line_number <= Len(rows)
    /\ LimitReached
    /\ out' = Append(out, <<"limit", line_number>>)
    /\ pc' = "done"
    /\ UNCHANGED <<inputVars, imageVars, fileVars, callVars, line_number,
                   processed_count, prompt>>

\* the empty-row test placed before the limit test
SkipEmptyBeforeLimit ==
    /\ pc = "loop"
    /\ line_number <= Len(rows)
    /\ IsEmptyRow(rows[line_number])
    /\ out' = Append(out, <<"skip", line_number>>)
    /\ line_number' = line_number + 1
    /\ UNCHANGED <<inputVars, imageVars, fileVars, callVars, pc, processed_count,
                   prompt>>

\* if not row or not row[0].strip(): continue
SkipEmpty ==
    /\ pc = "loop"
    /\ line_number <= Len(rows)
    /\ ~LimitReached
    /\ IsEmptyRow(rows[line_number])
    /\ out' = Append(out, <<"skip", line_number>>)
    /\ line_number' = line_number + 1
    /\ UNCHANGED <<inputVars, imageVars, fileVars, callVars, pc, processed_count,
                   prompt>>

\* prompt = row[0].strip(); the record enters the try block
BeginRecord ==
    /\ pc = "loop"
    /\ line_number <= Len(rows)
    /\ ~LimitReached
    /\ ~IsEmptyRow(rows[line_number])
    /\ prompt' = Strip(rows[line_number][1])
    /\ out' = Append(out, <<"processing", line_number>>)
    /\ pc' = "try"
    /\ UNCHANGED <<inputVars, imageVars, fileVars, callVars, line_number,
                   processed_count>>

\* the handler ending the loop in place of continuing it
ExceptStops ==
    /\ out' = Append(out, <<"error", line_number>>)
    /\ line_number' = line_number
    /\ pc' = "done"

\* the handler going round the loop without leaving the line
ExceptRetries ==
    /\ out' = Append(out, <<"error", line_number>>)
    /\ line_number' = line_number
    /\ pc' = "loop"

\* except Exception as e: print the error; continue
Except ==
    /\ out' = Append(out, <<"error", line_number>>)
    /\ line_number' = line_number + 1
    /\ pc' = "loop"

\* the aspect ratio decides the request size, or raises ValueError
ChooseSize ==
    /\ pc = "try"
    /\ IF IsSupported(aspect_ratio)
       THEN /\ pc' = "generate"
            /\ UNCHANGED <<line_number, out>>
       ELSE Except
    /\ UNCHANGED <<inputVars, imageVars, fileVars, callVars, processed_count, prompt>>

\* openai_client.images.generate(...): the request is sent; it returns or raises
Generate ==
    /\ pc = "generate"
    /\ genCalls' = Append(genCalls, [line |-> line_number, prompt |-> prompt,
                                     size |-> ImageSize(aspect_ratio)])
    /\ \E ok \in BOOLEAN :
          IF ok THEN pc' = "decode" /\ UNCHANGED <<line_number, out>>
          ELSE Except
    /\ UNCHANGED <<inputVars, imageVars, fileVars, fillCalls, processed_count, prompt>>

\* base64.b64decode and Image.open: the base image, or an exception
Decode ==
    /\ pc = "decode"
    /\ \E ok \in BOOLEAN :
          IF ok
          THEN /\ base_image' = ImageNew(ImageSize(aspect_ratio)[1],
                                         ImageSize(aspect_ratio)[2], "original")
               /\ pc' = "extend"
               /\ UNCHANGED <<line_number, out>>
          ELSE Except /\ UNCHANGED base_image
    /\ UNCHANGED <<inputVars, extended_canvas, mask, fileVars, callVars,
                   processed_count, prompt>>

\* extended_canvas, mask = create_extended_canvas_and_mask(base_image, aspect_ratio);
\* PIL may raise inside it (the image data is loaded by filter)
ExtendCanvas ==
    /\ pc = "extend"
    /\ LET r == CreateExtendedCanvasAndMask(base_image, aspect_ratio) IN
       \E ok \in BOOLEAN :
          IF ok /\ ~r.raised
          THEN /\ extended_canvas' = r.extended_canvas
               /\ mask' = r.mask
               /\ pc' = "debug_dir"
               /\ UNCHANGED <<line_number, out>>
          ELSE Except /\ UNCHANGED <<extended_canvas, mask>>
    /\ UNCHANGED <<inputVars, base_image, fileVars, callVars, processed_count, prompt>>

\* debug_dir.mkdir(exist_ok=True)
MakeDebugDir ==
    /\ pc = "debug_dir"
    /\ \E ok \in BOOLEAN :
          IF ok
          THEN /\ debugDirExists' = TRUE
               /\ pc' = "debug_canvas"
               /\ UNCHANGED <<line_number, out>>
          ELSE Except /\ UNCHANGED debugDirExists
    /\ UNCHANGED <<inputVars, imageVars, outDirExists, finalFiles, canvasFiles,
                   maskFiles, callVars, processed_count, prompt>>

\* extended_canvas.save(debug_dir / f"{line_number}_canvas.png")
SaveDebugCanvas ==
    /\ pc = "debug_canvas"
    /\ \E ok \in BOOLEAN :
          IF ok
          THEN /\ canvasFiles' = canvasFiles \cup {line_number}
               /\ pc' = "debug_mask"
               /\ UNCHANGED <<line_number, out>>
          ELSE Except /\ UNCHANGED canvasFiles
    /\ UNCHANGED <<inputVars, imageVars, outDirExists, debugDirExists, finalFiles,
                   maskFiles, callVars, processed_count, prompt>>

\* the driver without its save of the mask
SaveDebugMaskSkipped ==
    /\ pc = "debug_mask"
    /\ pc' = "fill"
    /\ UNCHANGED <<inputVars, imageVars, fileVars, callVars, line_number, out,
                   processed_count, prompt>>

\* mask.save(debug_dir / f"{line_number}_mask.png")
SaveDebugMask ==
    /\ pc = "debug_mask"
    /\ \E ok \in BOOLEAN :
          IF ok
          THEN /\ maskFiles' = maskFiles \cup {line_number}
               /\ pc' = "fill"
               /\ UNCHANGED <<line_number, out>>
          ELSE Except /\ UNCHANGED maskFiles
    /\ UNCHANGED <<inputVars, imageVars, outDirExists, debugDirExists, finalFiles,
                   canvasFiles, callVars, processed_count, prompt>>

\* the request extend_with_flux_fill sends: an empty prompt, the canvas and the mask
FluxFillRequest(canvas, m) ==
    [line |-> line_number, prompt |-> <<>>, image |-> Size(canvas), mask |-> Size(m)]

\* final_image = extend_with_flux_fill(extended_canvas, mask, prompt):
\* one replicate_client.run, then the download; either may raise
ExtendWithFluxFill ==
    /\ pc = "fill"
    /\ fillCalls' = Append(fillCalls, FluxFillRequest(extended_canvas, mask))
    /\ \E ok \in BOOLEAN :
          IF ok THEN pc' = "save" /\ UNCHANGED <<line_number, out>>
          ELSE Except
    /\ UNCHANGED <<inputVars, imageVars, fileVars, genCalls, processed_count, prompt>>

\* final_image.save(image_path); print; processed_count += 1
SaveFinal ==
    /\ pc = "save"
    /\ \E ok \in BOOLEAN :
          IF ok
          THEN /\ finalFiles' = finalFiles \cup {line_number}
               /\ processed_count' = processed_count + 1
               /\ out' = Append(out, <<"saved", line_number>>)
               /\ line_number' = line_number + 1
               /\ pc' = "loop"
          ELSE Except /\ UNCHANGED <<finalFiles, processed_count>>
    /\ UNCHANGED <<inputVars, imageVars, outDirExists, debugDirExists, canvasFiles,
                   maskFiles, callVars, prompt>>

Next ==
    \/ MakeOutputDir
    \/ EndOfInput
    \/ LimitStop
    \/ SkipEmpty
    \/ BeginRecord
    \/ ChooseSize
    \/ Generate
    \/ Decode
    \/ ExtendCanvas
    \/ MakeDebugDir
    \/ SaveDebugCanvas
    \/ SaveDebugMask
    \/ ExtendWithFluxFill
    \/ SaveFinal

Spec == Init /\ [][Next]_vars

----------------------------------------------------------------------------
(* create_extended_canvas_and_mask called on its own *)

\* lengths next to the target length, and small ones
NearTarget == (TargetLen - Slack)..(TargetLen + Slack)
SmallDims == 1..MaxDim
BaseDims == {LandscapeW, LandscapeH, LandscapeW - 1, LandscapeH - 1}

AllRatios == Ratios \cup {"1:1"}

\* the driver's variables while the function alone runs
DriverIdle ==
    /\ rows = <<>>
    /\ max_lines = None
    /\ line_number = 1
    /\ processed_count = 0
    /\ prompt = <<>>
    /\ outDirExists = FALSE
    /\ debugDirExists = FALSE
    /\ finalFiles = {}
    /\ canvasFiles = {}
    /\ maskFiles = {}
    /\ genCalls = <<>>
    /\ fillCalls = <<>>
    /\ out = <<>>

InitCall(widths, heights) ==
    /\ DriverIdle
    /\ pc = "call"
    /\ aspect_ratio \in AllRatios
    /\ \E w \in widths, h \in heights : base_image = ImageNew(w, h, "original")
    /\ extended_canvas = NoImage
    /\ mask = NoImage

\* images whose unextended side is small: every pixel of the result is examined
InitMask ==
    \/ InitCall(SmallDims \cup NearTarget, SmallDims) /\ aspect_ratio # "9:16"
    \/ InitCall(SmallDims, SmallDims \cup NearTarget) /\ aspect_ratio # "16:9"

\* images of the sizes the generation service is asked for, and next to the target
InitGeom ==
    InitCall(SmallDims \cup BaseDims \cup NearTarget,
             SmallDims \cup BaseDims \cup NearTarget)

driverVars == <<rows, max_lines, line_number, processed_count, prompt, fileVars,
                callVars, out>>

\* the call returns (extended_canvas, mask)
CallReturns ==
    /\ pc = "call"
    /\ LET r == CreateExtendedCanvasAndMask(base_image, aspect_ratio) IN
       /\ ~r.raised
       /\ extended_canvas' = r.extended_canvas
       /\ mask' = r.mask
    /\ pc' = "returned"
    /\ UNCHANGED <<driverVars, aspect_ratio, base_image>>

\* the call raises ValueError("Unsupported aspect ratio")
CallRaises ==
    /\ pc = "call"
    /\ CreateExtendedCanvasAndMask(base_image, aspect_ratio).raised
    /\ pc' = "raised"
    /\ UNCHANGED <<driverVars, aspect_ratio, imageVars>>

NextCall == CallReturns \/ CallRaises

SpecMask == InitMask /\ [][NextCall]_vars
SpecGeom == InitGeom /\ [][NextCall]_vars

\* a run of the batch driver, or a call of create_extended_canvas_and_mask
SpecRatio == (Init \/ InitMask) /\ [][Next \/ NextCall]_vars

----------------------------------------------------------------------------
(* Properties *)

Range(seq) == {seq[i] : i \in 1..Len(seq)}

\* the driver printed event ev for line n
Logged(ev, n) == <<ev, n>> \in Range(out)

\* the number of requests of calls made for line n
CallsFor(calls, n) == Cardinality({i \in 1..Len(calls) : calls[i].line = n})

\* a row that is empty, or whose first column is empty or only whitespace
BlankRow(row) ==
    IF row = <<>> THEN TRUE ELSE \A i \in 1..Len(row[1]) : row[1][i] \in Whitespace

\* the saved count has reached the limit
AtLimit == IF max_lines = None THEN FALSE ELSE processed_count >= max_lines[1]

\* this step is the except handler abandoning the current record
FailStep == out' = Append(out, <<"error", line_number>>)

\* the loop is about to examine a blank row
AtBlankRow ==
    /\ pc = "loop"
    /\ line_number <= Len(rows)
    /\ IF line_number <= Len(rows) THEN BlankRow(rows[line_number]) ELSE FALSE

LinesWithFiles == finalFiles \cup canvasFiles \cup maskFiles

(* C1: with limit N, at most N final images are ever written, the saved     *)
(* count is the number of final images, and no generation request is issued *)
(* once the saved count has reached N.                                      *)
C1_AtMostLimit ==
    /\ [](/\ processed_count = Cardinality(finalFiles)
          /\ IF max_lines = None THEN TRUE
             ELSE Cardinality(finalFiles) <= max_lines[1])
    /\ [][AtLimit => genCalls' = genCalls]_vars

\* the limit of 1 stopped the batch at line 2 with two more prompts to go
C1_Witness ==
    /\ pc = "done"
    /\ max_lines = <<1>>
    /\ Len(rows) = 3
    /\ ~BlankRow(rows[2]) /\ ~BlankRow(rows[3])
    /\ finalFiles = {1}
    /\ line_number = 2
    /\ Len(genCalls) = 1

(* C2 as stated: a blank row causes no request, writes no file, leaves the  *)
(* saved count unchanged, and the batch continues with the next row.        *)
C2_BlankRowContinues ==
    [][AtBlankRow =>
          /\ UNCHANGED <<genCalls, fillCalls, finalFiles, canvasFiles, maskFiles,
                         processed_count>>
          /\ line_number' = line_number + 1
          /\ pc' = "loop"]_vars

(* C2 amended: a blank row never has a request or a file, and the step that *)
(* examines it leaves the saved count unchanged; the batch continues with   *)
(* the next row unless the saved count has already reached the limit, in    *)
(* which case the batch stops at that row.                                  *)
C2_BlankRowSkipped ==
    /\ [](\A n \in 1..Len(rows) :
            BlankRow(rows[n]) =>
               /\ n \notin LinesWithFiles
               /\ CallsFor(genCalls, n) = 0
               /\ CallsFor(fillCalls, n) = 0)
    /\ [][AtBlankRow =>
             /\ UNCHANGED <<genCalls, fillCalls, finalFiles, canvasFiles, maskFiles,
                            processed_count>>
             /\ IF AtLimit
                THEN pc' = "done" /\ line_number' = line_number
                ELSE /\ pc' = "loop"
                     /\ line_number' = line_number + 1
                     /\ out' = Append(out, <<"skip", line_number>>)]_vars

\* a row whose first column is whitespace was skipped and the next row was saved
C2_Witness ==
    /\ Len(rows) >= 2
    /\ rows[1] = << <<" ", "\t">>, ACat >>
    /\ Logged("skip", 1)
    /\ 2 \in finalFiles
    /\ processed_count = 1

(* C3: a record whose step raises does not stop the batch: the saved count  *)
(* and the final files are unchanged and the loop goes on to the next row;  *)
(* a record whose generation request failed has no final and no debug file; *)
(* files are only ever written for the record being processed, and the loop *)
(* never goes back to a line.                                               *)
C3_FailureIsolated ==
    [][/\ FailStep =>
            /\ processed_count' = processed_count
            /\ finalFiles' = finalFiles
            /\ line_number \notin finalFiles
            /\ line_number' = line_number + 1
            /\ pc' = "loop"
       /\ (FailStep /\ pc \in {"try", "generate", "decode"}) =>
            line_number \notin LinesWithFiles'
       /\ \A n \in LinesWithFiles' \ LinesWithFiles : n = line_number
       /\ LinesWithFiles \subseteq LinesWithFiles'
       /\ line_number' >= line_number]_vars

\* the generation of line 2 of 3 failed; lines 1 and 3 were saved
C3_Witness ==
    /\ pc = "done"
    /\ Len(rows) = 3
    /\ Logged("error", 2)
    /\ CallsFor(genCalls, 2) = 1
    /\ 2 \notin LinesWithFiles
    /\ finalFiles = {1, 3}
    /\ canvasFiles = {1, 3}
    /\ maskFiles = {1, 3}

\* the batch was stopped by the limit right after line i - 1 was saved, at blank row i
StoppedAtBlank(i) ==
    /\ pc = "done"
    /\ i \in 2..Len(rows)
    /\ BlankRow(rows[i])
    /\ i - 1 \in finalFiles
    /\ \A j \in finalFiles : j <= i - 1
    /\ IF max_lines = None THEN FALSE ELSE processed_count = max_lines[1]

(* C4 as stated: the empty-prompt skip is applied before the limit stop, so *)
(* a blank row that directly follows the record whose save made the count   *)
(* reach the limit is logged as skipped before the batch stops.             *)
C4_SkipBeforeStop ==
    \A i \in 1..Len(rows) : StoppedAtBlank(i) => Logged("skip", i)

(* C4 amended: the limit stop is applied before the empty-prompt skip: a    *)
(* blank row that directly follows the record whose save made the count     *)
(* reach the limit is not logged as skipped; the batch stops at it, and no  *)
(* request is made for it or any later line.  With rows "a cat", "",        *)
(* "a dog" and limit 1, line 1 is saved with its debug files.               *)
C4_StopBeforeSkip ==
    /\ \A i \in 1..Len(rows) :
          StoppedAtBlank(i) =>
             /\ ~Logged("skip", i)
             /\ Logged("limit", i)
             /\ line_number = i
             /\ \A n \in i..Len(rows) : CallsFor(genCalls, n) = 0
    /\ (/\ rows = << <<ACat>>, << <<>> >>, <<ADog>> >>
        /\ max_lines = <<1>>
        /\ pc = "done"
        /\ 1 \in finalFiles) =>
          /\ LinesWithFiles = {1}
          /\ 1 \in canvasFiles /\ 1 \in maskFiles
          /\ out = << <<"processing", 1>>, <<"saved", 1>>, <<"limit", 2>> >>

\* the scenario "a cat", "", "a dog" with limit 1, after line 1 was saved
C4_Witness ==
    /\ rows = << <<ACat>>, << <<>> >>, <<ADog>> >>
    /\ max_lines = <<1>>
    /\ pc = "done"
    /\ finalFiles = {1}
    /\ StoppedAtBlank(2)

(* C5 as stated: the output directory and its debug subdirectory both exist *)
(* before the first record is processed, hence at the end of every run.     *)
C5_BothDirsFirst ==
    pc # "start" => outDirExists /\ debugDirExists

(* C5 amended: the output directory exists before the first record is       *)
(* processed and at the end of every run.  The debug subdirectory exists    *)
(* before any debug file is written and before any inpainting request; if   *)
(* absent at the start, it is created only when a record has its canvas and *)
(* mask, after that record's generation request.                            *)
C5_DirsWhenNeeded ==
    /\ [](pc # "start" => outDirExists)
    /\ []((\/ pc \in {"debug_canvas", "debug_mask", "fill", "save"}
           \/ canvasFiles \cup maskFiles # {}
           \/ fillCalls # <<>>) => debugDirExists)
    /\ [][(~debugDirExists /\ debugDirExists') =>
             /\ pc = "debug_dir"
             /\ CallsFor(genCalls, line_number) = 1
             /\ extended_canvas # NoImage /\ mask # NoImage]_vars

\* every generation request of a run of three failed: there is no debug directory
C5_Witness ==
    /\ pc = "done"
    /\ Len(genCalls) = 3
    /\ outDirExists
    /\ ~debugDirExists
    /\ LinesWithFiles = {}

\* the rectangle the original image was pasted at
PasteRect == [x |-> extended_canvas.layers[1].x, y |-> extended_canvas.layers[1].y,
              w |-> base_image.w, h |-> base_image.h]

(* C6: the mask has the dimensions of the extended canvas; its pixels are   *)
(* black exactly inside the rectangle of the size of the original image at  *)
(* the paste offset, which are exactly the pixels of the canvas overwritten *)
(* by the original image, and white everywhere else.                        *)
C6_MaskMatchesPaste ==
    pc = "returned" =>
       /\ Size(mask) = Size(extended_canvas)
       /\ Len(extended_canvas.layers) = 1
       /\ \A x \in 0..(mask.w - 1), y \in 0..(mask.h - 1) :
             LET inside == /\ PasteRect.x <= x /\ x < PasteRect.x + PasteRect.w
                           /\ PasteRect.y <= y /\ y < PasteRect.y + PasteRect.h
             IN  /\ GetPixel(mask, x, y) = IF inside THEN "black" ELSE "white"
                 /\ GetPixel(extended_canvas, x, y) =
                       IF inside THEN "original" ELSE "blurred"

\* a 2 x 1823 image extended to 9:16: rows 0..1822 are preserved, row 1823 is filled
C6_Witness ==
    /\ pc = "returned"
    /\ aspect_ratio = "9:16"
    /\ Size(base_image) = <<2, 1823>>
    /\ Size(mask) = <<2, 1824>>
    /\ GetPixel(mask, 1, 1822) = "black"
    /\ GetPixel(mask, 1, 1823) = "white"
    /\ GetPixel(extended_canvas, 1, 1823) = "blurred"

(* C7: for 16:9 the canvas is 1824 x h with the original at                 *)
(* ((1824 - w) // 2, 0), for 9:16 it is w x 1824 with the original at       *)
(* (0, (1824 - h) // 2); the margin after the original is the margin before *)
(* it or one pixel more, and the same when the difference is even; a        *)
(* 1024 x 1536 image extended to 9:16 gives 1024 x 1824 at vertical offset  *)
(* 144.                                                                     *)
C7_Geometry ==
    pc = "returned" =>
       LET w == base_image.w
           h == base_image.h
           before == IF aspect_ratio = "16:9" THEN PasteRect.x ELSE PasteRect.y
           orig == IF aspect_ratio = "16:9" THEN w ELSE h
           after == 1824 - orig - before
       IN  /\ aspect_ratio = "16:9" =>
                /\ Size(extended_canvas) = <<1824, h>>
                /\ <<PasteRect.x, PasteRect.y>> = <<(1824 - w) \div 2, 0>>
           /\ aspect_ratio = "9:16" =>
                /\ Size(extended_canvas) = <<w, 1824>>
                /\ <<PasteRect.x, PasteRect.y>> = <<0, (1824 - h) \div 2>>
           /\ after - before \in {0, 1}
           /\ (1824 - orig) % 2 = 0 => after = before
           /\ 2 * before <= 1824 - orig
           /\ (w = 1024 /\ h = 1536 /\ aspect_ratio = "9:16") =>
                /\ Size(extended_canvas) = <<1024, 1824>>
                /\ <<PasteRect.x, PasteRect.y>> = <<0, 144>>
                /\ <<mask.layers[1].x, mask.layers[1].y>> = <<0, 144>>

\* the 1024 x 1536 base image extended to 9:16
C7_Witness ==
    /\ pc = "returned"
    /\ aspect_ratio = "9:16"
    /\ Size(base_image) = <<1024, 1536>>
    /\ Size(extended_canvas) = <<1024, 1824>>
    /\ PasteRect.y = 144

(* C8: every inpainting request is made for a line whose canvas and mask    *)
(* debug files are already written; when the record then fails, both debug  *)
(* files remain and the line has no final file.                             *)
C8_DebugBeforeInpaint ==
    /\ pc = "fill" => line_number \in canvasFiles \cap maskFiles
    /\ \A k \in 1..Len(fillCalls) :
          LET n == fillCalls[k].line
          IN  /\ n \in canvasFiles
              /\ n \in maskFiles
              /\ Logged("error", n) => n \notin finalFiles

\* line 1 failed after its inpainting request: debug files, no final file
C8_Witness ==
    /\ pc = "done"
    /\ CallsFor(fillCalls, 1) = 1
    /\ Logged("error", 1)
    /\ 1 \in canvasFiles /\ 1 \in maskFiles
    /\ 1 \notin finalFiles

Unsupported == aspect_ratio \notin {"16:9", "9:16"}

\* a call of create_extended_canvas_and_mask raises exactly for the other ratios
RaisesIffUnsupported ==
    pc \in {"returned", "raised"} =>
       /\ pc = "raised" <=> Unsupported
       /\ pc = "raised" => extended_canvas = NoImage /\ mask = NoImage

\* a batch run with an unsupported ratio makes no request and writes no file
NoWorkWhenUnsupported ==
    (Unsupported /\ pc \notin {"call", "returned", "raised"}) =>
       /\ genCalls = <<>>
       /\ fillCalls = <<>>
       /\ LinesWithFiles = {}
       /\ processed_count = 0

\* the finished batch went through all rows, with an error for every non-blank one
RanThroughAllRows ==
    /\ line_number = Len(rows) + 1
    /\ \A n \in 1..Len(rows) : ~BlankRow(rows[n]) => Logged("error", n)

(* C9 as stated: the function raises for every other ratio string; a batch  *)
(* run with such a ratio raises for each non-blank record before any        *)
(* request, writes no file, and still runs through all rows.                *)
C9_UnsupportedRunsAll ==
    /\ RaisesIffUnsupported
    /\ NoWorkWhenUnsupported
    /\ (Unsupported /\ pc = "done") => RanThroughAllRows

(* C9 amended: as stated when the limit is unset or at least 1; with limit  *)
(* 0 the batch stops at its first row before any record is examined, so no  *)
(* error is raised and still no request is made and no file is written.     *)
C9_UnsupportedRatio ==
    /\ RaisesIffUnsupported
    /\ NoWorkWhenUnsupported
    /\ (Unsupported /\ pc = "done") =>
          IF max_lines = <<0>> /\ rows # <<>>
          THEN line_number = 1 /\ out = << <<"limit", 1>> >>
          ELSE RanThroughAllRows

\* three prompts with ratio 4:3: three errors, the batch at its end
C9_Witness ==
    /\ pc = "done"
    /\ aspect_ratio = "4:3"
    /\ Len(rows) = 3
    /\ \A n \in 1..3 : ~BlankRow(rows[n]) /\ Logged("error", n)
    /\ line_number = 4

\* the state of the record of line n
RecordState(n) ==
    IF n > line_number THEN "Pending"
    ELSE IF n < line_number
    THEN IF Logged("skip", n) THEN "Skipped"
         ELSE IF n \in finalFiles THEN "Saved"
         ELSE "Failed"
    ELSE IF pc = "extend" THEN "BaseImageGenerated"
    ELSE IF pc \in {"debug_dir", "debug_canvas", "debug_mask", "fill"}
    THEN "CanvasExtended"
    ELSE IF pc = "save" THEN "Inpainted"
    ELSE "Pending"

Terminal == {"Saved", "Failed", "Skipped"}

Moves == { <<"Pending", "BaseImageGenerated">>,
           <<"BaseImageGenerated", "CanvasExtended">>,
           <<"CanvasExtended", "Inpainted">>,
           <<"Inpainted", "Saved">>,
           <<"Pending", "Failed">>,
           <<"BaseImageGenerated", "Failed">>,
           <<"CanvasExtended", "Failed">>,
           <<"Inpainted", "Failed">>,
           <<"Pending", "Skipped">> }

(* C10: each record moves one stage at a time through Pending,              *)
(* BaseImageGenerated, CanvasExtended, Inpainted, Saved, or to Failed from  *)
(* a non-terminal state (a blank row only to Skipped); at most one          *)
(* generation and one inpainting request are made per record; a record      *)
(* has left Pending only when every earlier record is Saved, Failed or      *)
(* skipped.                                                                 *)
C10_RecordStateMachine ==
    /\ [](\A n \in 1..Len(rows) :
            /\ CallsFor(genCalls, n) <= 1
            /\ CallsFor(fillCalls, n) <= 1
            /\ RecordState(n) \in {"BaseImageGenerated", "CanvasExtended",
                                   "Inpainted", "Saved"}
                  => CallsFor(genCalls, n) = 1
            /\ RecordState(n) \in {"Inpainted", "Saved"}
                  => CallsFor(fillCalls, n) = 1
            /\ RecordState(n) = "Skipped" <=>
                  (BlankRow(rows[n]) /\ n < line_number)
            /\ RecordState(n) # "Pending" =>
                  \A j \in 1..(n - 1) : RecordState(j) \in Terminal)
    /\ [][\A n \in 1..Len(rows) :
            \/ RecordState(n)' = RecordState(n)
            \/ <<RecordState(n), RecordState(n)'>> \in Moves]_vars

\* line 1 saved, line 2 failed after its inpainting request, line 3 skipped
C10_Witness ==
    /\ pc = "done"
    /\ Len(rows) = 3
    /\ RecordState(1) = "Saved"
    /\ RecordState(2) = "Failed" /\ CallsFor(fillCalls, 2) = 1
    /\ RecordState(3) = "Skipped"

====
